---- MODULE Spec2Model ----
(***************************************************************************)
(* Model of the hybrid retrieval engine of ArchiveExplorer:                *)
(*   - EmbeddingService (embeddingService.ts): the shared model loader,    *)
(*     initialize() / embed() and cosineSimilarity;                        *)
(*   - src/lib/aiSearchUtils.ts: searchArticlesKeyword, searchArticlesAI   *)
(*     and searchArticlesHybrid.                                           *)
(* JavaScript runs the handlers on one task queue: an async function runs  *)
(* without interruption up to its next await, so every action below is    *)
(* one such run (a call up to its first suspension, or the continuation    *)
(* that a settled promise wakes up).                                       *)
(*                                                                         *)
(* Text is a sequence of one-character strings.  Scores are kept in        *)
(* tenths of a point (relevanceScore 62 is stored as 620) so that the      *)
(* products with 0.7 and 0.3 stay integers.                                *)
(*                                                                         *)
(* Five specifications share the actions:                                  *)
(*   Spec            calls of every kind, interleaved, over a short shelf; *)
(*   SpecOneSearch   one search call over every corpus of a larger library *)
(*                   (ties, the semantic pre-filter, stored vectors);      *)
(*   SpecTwoSearches two searches that overlap, with promises that settle; *)
(*   SpecCosine      cosineSimilarity on its own, in rounded arithmetic;   *)
(*   SpecPage        the Search page (pages/Search.tsx) driving the calls, *)
(*                   with the SummarizationService behind its buttons.     *)
(***************************************************************************)
EXTENDS Integers, Sequences, FiniteSets, TLC

\* ------------------------------------------------------------------ bounds
MaxCalls == 2      \* calls made by the page / its callers in one run
MaxCorpus == 2     \* longest corpus handed to the search functions

\* ------------------------------------------------------------------- text
Whitespace == {" ", "\t"}

LowerOf ==
  [A |-> "a", B |-> "b", C |-> "c", D |-> "d", E |-> "e", F |-> "f",
   G |-> "g", H |-> "h", I |-> "i", J |-> "j", K |-> "k", L |-> "l",
   M |-> "m", N |-> "n", O |-> "o", P |-> "p", Q |-> "q", R |-> "r",
   S |-> "s", T |-> "t", U |-> "u", V |-> "v", W |-> "w", X |-> "x",
   Y |-> "y", Z |-> "z"]

\* String.prototype.toLowerCase
toLowerCase(s) ==
  [i \in 1..Len(s) |-> IF s[i] \in DOMAIN LowerOf THEN LowerOf[s[i]] ELSE s[i]]

RECURSIVE trimStart(_)
trimStart(s) ==
  IF s # <<>> /\ Head(s) \in Whitespace THEN trimStart(Tail(s)) ELSE s

RECURSIVE trimEnd(_)
trimEnd(s) ==
  IF s # <<>> /\ s[Len(s)] \in Whitespace
    THEN trimEnd(SubSeq(s, 1, Len(s) - 1))
    ELSE s

\* no trimming: the test !query in place of !query.trim()
trim_Identity(s) == s

\* String.prototype.trim
trim(s) == trimEnd(trimStart(s))

\* String.prototype.includes
includes(s, sub) ==
  \E i \in 0..(Len(s) - Len(sub)) : SubSeq(s, i + 1, i + Len(sub)) = sub

\* String.prototype.split(/\s+/): the pieces between maximal runs of
\* whitespace; a leading or trailing run leaves an empty piece.
RECURSIVE splitFrom(_, _, _, _)
splitFrom(s, i, cur, acc) ==
  IF i > Len(s) THEN Append(acc, cur)
  ELSE IF s[i] \in Whitespace
    THEN IF i = 1 \/ s[i - 1] \notin Whitespace
           THEN splitFrom(s, i + 1, <<>>, Append(acc, cur))
           ELSE splitFrom(s, i + 1, cur, acc)
    ELSE splitFrom(s, i + 1, Append(cur, s[i]), acc)

split(s) == splitFrom(s, 1, <<>>, <<>>)

RECURSIVE sum(_)
sum(seq) == IF seq = <<>> THEN 0 ELSE Head(seq) + sum(Tail(seq))

\* ------------------------------------------------------------ the corpus
\* The documents a corpus is drawn from (the records of articles.json:
\* interface Article without the optional embedding field).
Doc1 ==
  [id |-> 1,
   title |-> <<"O", "l", "d", " ", "M", "i", "l", "l">>,
   url |-> <<"u", "1">>,
   date |-> <<"1", "9", "0", "0">>,
   type |-> <<"N", "e", "w", "s">>,
   description |-> <<"f", "i", "r", "e", " ", "a", "t", " ", "t", "h", "e", " ", "m", "i", "l", "l">>,
   tags |-> <<<<"m", "i", "l", "l">>, <<"f", "i", "r", "e">>>>,
   keywords |-> <<"m", "i", "l", "l", " ", "f", "i", "r", "e">>]

Doc2 ==
  [id |-> 2,
   title |-> <<"Z", "o", "o", " ", "D", "a", "y">>,
   url |-> <<"u", "2">>,
   date |-> <<"1", "9", "1", "0">>,
   type |-> <<"E", "v", "e", "n", "t">>,
   description |-> <<"o", "l", "d", " ", "z", "o", "o", " ", "o", "p", "e", "n", "s">>,
   tags |-> <<<<"z", "o", "o">>>>,
   keywords |-> <<"z", "o", "o", " ", "p", "a", "r", "k">>]

Doc3 ==
  [id |-> 3,
   title |-> <<"T", "o", "w", "n", " ", "B", "a", "n", "k">>,
   url |-> <<"u", "3">>,
   date |-> <<"1", "9", "2", "0">>,
   type |-> <<"R", "e", "c", "o", "r", "d", "s">>,
   description |-> <<"m", "o", "n", "e", "y", " ", "v", "o", "t", "e">>,
   tags |-> <<<<"v", "o", "t", "e">>>>,
   keywords |-> <<"b", "a", "n", "k">>]

\* the arrays the corpus is cut from: a corpus is the first documents of a
\* shelf, at most MaxCorpus of them (ids are unique within a corpus)
Shelves == {<<Doc3>>, <<Doc2, Doc1, Doc3>>}

Corpora ==
  UNION {{SubSeq(shelf, 1, n) :
            n \in 0..(IF Len(shelf) < MaxCorpus THEN Len(shelf) ELSE MaxCorpus)} :
         shelf \in Shelves}

\* the query strings the callers type
QueryEmpty == <<>>
QueryBlank == <<" ", "\t">>
QueryOldMill == <<"O", "l", "d", " ", "M", "i", "l", "l">>
QueryMill == <<"m", "i", "l", "l">>
Queries == {QueryEmpty, QueryBlank, QueryOldMill}

\* the texts handed to embed() directly
Texts == {QueryMill}

\* ------------------------------------------------------------ the library
\* More documents, for a single search over every corpus of at most
\* MaxCorpus of them.  Two come with a stored vector, as the records of
\* articles_with_embeddings.json do: Doc7 with one of the model's length,
\* Doc8 with one of another length.
Doc4 ==
  [id |-> 4,
   title |-> <<"O", "l", "d", " ", "F", "a", "r", "m">>,
   url |-> <<"u", "4">>,
   date |-> <<"1", "9", "3", "0">>,
   type |-> <<"N", "e", "w", "s">>,
   description |-> <<"a", "n", " ", "o", "l", "d", " ", "b", "a", "r", "n">>,
   tags |-> <<<<"b", "a", "r", "n">>>>,
   keywords |-> <<"o", "l", "d", " ", "b", "a", "r", "n">>]

Doc5 ==
  [id |-> 5,
   title |-> <<"M", "a", "m", "m", "o", "t", "h", " ", "M", "a", "p">>,
   url |-> <<"u", "5">>,
   date |-> <<"1", "9", "4", "0">>,
   type |-> <<"R", "e", "c", "o", "r", "d", "s">>,
   description |-> <<"b", "i", "g", " ", "t", "u", "s", "k", "s">>,
   tags |-> <<<<"t", "u", "s", "k">>>>,
   keywords |-> <<"m", "a", "m", "m", "o", "t", "h">>]

Doc6 ==
  [id |-> 6,
   title |-> <<"J", "a", "z", "z", " ", "B", "u", "z", "z">>,
   url |-> <<"u", "6">>,
   date |-> <<"1", "9", "5", "0">>,
   type |-> <<"E", "v", "e", "n", "t">>,
   description |-> <<"o", "l", "d", " ", "z", "o", "o", " ", "j", "a", "z", "z", " ", "m", "o", "v", "e", "s">>,
   tags |-> <<<<"j", "a", "z", "z">>>>,
   keywords |-> <<"j", "a", "z", "z">>]

Doc7 ==
  [id |-> 7,
   title |-> <<"O", "l", "d", " ", "M", "i", "l", "l", " ", "L", "e", "d", "g", "e", "r">>,
   url |-> <<"u", "7">>,
   date |-> <<"1", "9", "6", "0">>,
   type |-> <<"R", "e", "c", "o", "r", "d", "s">>,
   description |-> <<"o", "l", "d", " ", "m", "i", "l", "l", " ", "c", "a", "s", "h", " ", "b", "o", "o", "k">>,
   tags |-> <<<<"l", "e", "d", "g", "e", "r">>>>,
   keywords |-> <<"l", "e", "d", "g", "e", "r">>,
   embedding |-> <<0, 1, 0>>]

Doc8 ==
  [id |-> 8,
   title |-> <<"M", "i", "l", "l", " ", "D", "e", "e", "d">>,
   url |-> <<"u", "8">>,
   date |-> <<"1", "9", "7", "0">>,
   type |-> <<"R", "e", "c", "o", "r", "d", "s">>,
   description |-> <<"l", "a", "n", "d", " ", "s", "a", "l", "e">>,
   tags |-> <<<<"d", "e", "e", "d">>>>,
   keywords |-> <<"d", "e", "e", "d">>,
   embedding |-> <<1, 0>>]

\* a document whose two tags both hold the word "mill"
Doc9 ==
  [id |-> 9,
   title |-> <<"G", "r", "a", "i", "n", " ", "S", "t", "o", "r", "e">>,
   url |-> <<"u", "9">>,
   date |-> <<"1", "9", "8", "0">>,
   type |-> <<"N", "e", "w", "s">>,
   description |-> <<"f", "l", "o", "u", "r", " ", "s", "a", "c", "k", "s">>,
   tags |-> <<<<"m", "i", "l", "l">>, <<"o", "l", "d", " ", "m", "i", "l", "l">>>>,
   keywords |-> <<"g", "r", "a", "i", "n">>]

\* a document that shares nothing with the query "Old Mill"
Doc10 ==
  [id |-> 10,
   title |-> <<"Z", "e", "b", "r", "a", " ", "P", "e", "n">>,
   url |-> <<"u", "1", "0">>,
   date |-> <<"1", "9", "9", "0">>,
   type |-> <<"E", "v", "e", "n", "t">>,
   description |-> <<"z", "e", "b", "r", "a", " ", "h", "o", "u", "s", "e">>,
   tags |-> <<<<"z", "e", "b", "r", "a">>>>,
   keywords |-> <<"z", "e", "b", "r", "a">>]

Library == {Doc1, Doc2, Doc3, Doc4, Doc5, Doc6, Doc7, Doc8, Doc9, Doc10}

\* the corpora of distinct documents of the library
LibraryCorpora ==
  UNION {{arts \in [1..n -> Library] :
            \A i, j \in 1..n : arts[i] = arts[j] => i = j} :
         n \in 0..MaxCorpus}

QueryAtTheMill == <<"a", "t", " ", "t", "h", "e", " ", "m", "i", "l", "l">>
QueryNews == <<"N", "e", "w", "s">>
QueryZoos == <<"z", "o", "o", "s">>

\* the query strings handed to searchArticlesKeyword in a single search
KeywordQueries == Queries \cup {QueryAtTheMill, QueryNews, QueryZoos}

\* --------------------------------------------------------- keyword search
\* a score in points, as stored (tenths of a point)
Points(n) == n * 10

\* the filter on word.length is lost: every piece counts as a word
queryWords_KeepsShort(query) == split(toLowerCase(query))

\* queryWords of searchArticlesKeyword
queryWords(query) ==
  SelectSeq(split(toLowerCase(query)), LAMBDA word : Len(word) > 2)

\* the tag loop stops at the first tag that matches: 15 once per word
keywordScore_TagOncePerWord(query, article) ==
  LET queryLower == toLowerCase(query)
      words == queryWords(query)
      title == toLowerCase(article.title)
      description == toLowerCase(article.description)
      keywords == toLowerCase(article.keywords)
      tagHits(word) ==
        IF \E n \in 1..Len(article.tags) :
             \/ includes(toLowerCase(article.tags[n]), word)
             \/ includes(word, toLowerCase(article.tags[n]))
          THEN 1 ELSE 0
  IN  (IF includes(title, queryLower) THEN 100 ELSE 0)
    + (IF includes(description, queryLower) THEN 50 ELSE 0)
    + 20 * Len(SelectSeq(words, LAMBDA word : includes(title, word)))
    + 10 * Len(SelectSeq(words, LAMBDA word : includes(description, word)))
    + 15 * sum([k \in 1..Len(words) |-> tagHits(words[k])])
    + 5 * Len(SelectSeq(words, LAMBDA word : includes(keywords, word)))
    + (IF includes(toLowerCase(article.type), queryLower) THEN 10 ELSE 0)

\* the score the map callback of searchArticlesKeyword gives one article
keywordScore(query, article) ==
  LET queryLower == toLowerCase(query)
      words == queryWords(query)
      title == toLowerCase(article.title)
      description == toLowerCase(article.description)
      keywords == toLowerCase(article.keywords)
      tagHits(word) ==
        Len(SelectSeq(article.tags,
                      LAMBDA tag : \/ includes(toLowerCase(tag), word)
                                   \/ includes(word, toLowerCase(tag))))
  IN  (IF includes(title, queryLower) THEN 100 ELSE 0)
    + (IF includes(description, queryLower) THEN 50 ELSE 0)
    + 20 * Len(SelectSeq(words, LAMBDA word : includes(title, word)))
    + 10 * Len(SelectSeq(words, LAMBDA word : includes(description, word)))
    + 15 * sum([k \in 1..Len(words) |-> tagHits(words[k])])
    + 5 * Len(SelectSeq(words, LAMBDA word : includes(keywords, word)))
    + (IF includes(toLowerCase(article.type), queryLower) THEN 10 ELSE 0)

\* a SearchResult: the article (by id) with its relevanceScore
Result(article, score) == [id |-> article.id, relevanceScore |-> score]

\* a sort that is not stable: a result goes before those of equal score
RECURSIVE insertByScore_Unstable(_, _)
insertByScore_Unstable(sorted, r) ==
  IF sorted = <<>> THEN <<r>>
  ELSE IF Head(sorted).relevanceScore > r.relevanceScore
    THEN <<Head(sorted)>> \o insertByScore_Unstable(Tail(sorted), r)
    ELSE <<r>> \o sorted

\* Array.prototype.sort((a, b) => b.relevanceScore - a.relevanceScore):
\* a stable sort, highest score first
RECURSIVE insertByScore(_, _)
insertByScore(sorted, r) ==
  IF sorted = <<>> THEN <<r>>
  ELSE IF Head(sorted).relevanceScore >= r.relevanceScore
    THEN <<Head(sorted)>> \o insertByScore(Tail(sorted), r)
    ELSE <<r>> \o sorted

RECURSIVE sortByScoreFrom(_, _)
sortByScoreFrom(results, sorted) ==
  IF results = <<>> THEN sorted
  ELSE sortByScoreFrom(Tail(results), insertByScore(sorted, Head(results)))

sortByScore(results) == sortByScoreFrom(results, <<>>)

\* the early return of all three search functions for a blank query
allWithZero(arts) == [i \in 1..Len(arts) |-> Result(arts[i], 0)]

searchArticlesKeyword(query, arts) ==
  IF trim(query) = <<>> THEN allWithZero(arts)
  ELSE sortByScore(
         SelectSeq([i \in 1..Len(arts) |->
                      Result(arts[i], Points(keywordScore(query, arts[i])))],
                   LAMBDA result : result.relevanceScore > 0))

\* -------------------------------------------------------------- vectors
\* The inference backend is a fixed function of the text.  Here a text is
\* embedded as its counts of the feature characters; the backend's
\* normalisation scales a vector and leaves every cosine unchanged.
FeatureChars == <<"m", "z", "i">>

ModelOutput(text) ==
  [k \in 1..Len(FeatureChars) |->
     Len(SelectSeq(toLowerCase(text), LAMBDA ch : ch = FeatureChars[k]))]

dot(vecA, vecB) == sum([i \in 1..Len(vecA) |-> vecA[i] * vecB[i]])

\* a * sqrt(n) <= b, for integers a, b and n >= 0
LeqTimesRoot(a, n, b) ==
  IF a <= 0 /\ b >= 0 THEN TRUE
  ELSE IF a > 0 /\ b < 0 THEN FALSE
  ELSE IF a >= 0 THEN a * a * n <= b * b
  ELSE a * a * n >= b * b

\* Math.round(cosineSimilarity(vecA, vecB) * 100) for vectors of one length:
\* 0 when a norm is 0, else the integer nearest to 100 * dot / (|a| * |b|)
similarityPercent(vecA, vecB) ==
  LET d == dot(vecA, vecB)
      n == dot(vecA, vecA) * dot(vecB, vecB)
  IN  IF n = 0 THEN 0
      ELSE CHOOSE r \in -100..100 :
             /\ LeqTimesRoot(2 * r - 1, n, 200 * d)
             /\ ~LeqTimesRoot(2 * r + 1, n, 200 * d)

\* the text searchArticlesAI embeds for an article
articleText(article) == article.title \o <<".", " ">> \o article.description

\* ------------------------------------------------------- floating point
\* cosineSimilarity computes with JavaScript numbers: every operation gives
\* the representable number nearest to the exact result, ties to the even
\* mantissa.  A number is m * 2^e with 2^(Precision-1) <= |m| < 2^Precision,
\* or zero.  JavaScript keeps 53 bits of mantissa, the model Precision bits;
\* the sums of the loop are small integers and exact in both.
Precision == 13

\* the longest vectors handed to cosineSimilarity directly
MaxDim == 2

RECURSIVE Pow2(_)
Pow2(k) == IF k = 0 THEN 1 ELSE 2 * Pow2(k - 1)

Float(m, e) == [class |-> "finite", m |-> m, e |-> e]

Zero == Float(0, 0)

One == Float(Pow2(Precision - 1), 1 - Precision)

NaN == [class |-> "NaN", m |-> 0, e |-> 0]

Infinity == [class |-> "Infinity", m |-> 0, e |-> 0]

\* the integer nearest to num / den (num >= 0, den > 0), ties to even
roundHalfEven(num, den) ==
  LET q == num \div den
      r == num % den
  IN  IF 2 * r > den \/ (2 * r = den /\ q % 2 = 1) THEN q + 1 ELSE q

\* the number nearest to (num / den) * 2^e, for num > 0 and den > 0
RECURSIVE nearest(_, _, _)
nearest(num, den, e) ==
  IF num >= den * Pow2(Precision) THEN nearest(num, 2 * den, e + 1)
  ELSE IF num < den * Pow2(Precision - 1) THEN nearest(2 * num, den, e - 1)
  ELSE LET m == roundHalfEven(num, den)
       IN  IF m = Pow2(Precision)
             THEN Float(Pow2(Precision - 1), e + 1)
             ELSE Float(m, e)

\* the largest r in lo..hi-1 with r * r <= n, given lo * lo <= n < hi * hi
RECURSIVE isqrt(_, _, _)
isqrt(n, lo, hi) ==
  IF hi - lo <= 1 THEN lo
  ELSE LET mid == (lo + hi) \div 2
       IN  IF mid * mid <= n THEN isqrt(n, mid, hi) ELSE isqrt(n, lo, mid)

\* Math.sqrt(n * 4^(-k)) for an integer n > 0
RECURSIVE sqrtFrom(_, _)
sqrtFrom(n, k) ==
  IF n < Pow2(2 * Precision - 2) THEN sqrtFrom(4 * n, k + 1)
  ELSE LET r == isqrt(n, Pow2(Precision - 1), Pow2(Precision))
           m == IF n > r * r + r THEN r + 1 ELSE r
       IN  IF m = Pow2(Precision)
             THEN Float(Pow2(Precision - 1), 1 - k)
             ELSE Float(m, 0 - k)

\* the square root is left out: the sum of squares stands for the norm
sqrt_None(n) == IF n = 0 THEN Zero ELSE nearest(n, 1, 0)

\* Math.sqrt(n) of a sum of squares n
sqrt(n) == IF n = 0 THEN Zero ELSE sqrtFrom(n, 0)

\* x * y for two norms
times(x, y) ==
  IF x.m = 0 \/ y.m = 0 THEN Zero ELSE nearest(x.m * y.m, 1, x.e + y.e)

\* n / x for the integer n (the dot product) and a product of norms x
divide(n, x) ==
  IF x.m = 0 THEN (IF n = 0 THEN NaN ELSE Infinity)
  ELSE IF n = 0 THEN Zero
  ELSE LET q == nearest(IF n < 0 THEN 0 - n ELSE n, x.m, 0 - x.e)
       IN  IF n < 0 THEN Float(0 - q.m, q.e) ELSE q

\* the quotient is taken over normA * normA
cosineSimilarity_OneNorm(vecA, vecB) ==
  IF Len(vecA) # Len(vecB) THEN [outcome |-> "threw", value |-> Zero]
  ELSE LET dotProduct == dot(vecA, vecB)
           normA == sqrt(dot(vecA, vecA))
           normB == sqrt(dot(vecB, vecB))
       IN  [outcome |-> "returned",
            value |-> IF normA = Zero \/ normB = Zero THEN Zero
                      ELSE divide(dotProduct, times(normA, normA))]

\* the test for a zero norm is left out
cosineSimilarity_NoZeroTest(vecA, vecB) ==
  IF Len(vecA) # Len(vecB) THEN [outcome |-> "threw", value |-> Zero]
  ELSE LET dotProduct == dot(vecA, vecB)
           normA == sqrt(dot(vecA, vecA))
           normB == sqrt(dot(vecB, vecB))
       IN  [outcome |-> "returned",
            value |-> divide(dotProduct, times(normA, normB))]

\* cosineSimilarity(vecA, vecB): it throws for vectors of two lengths,
\* returns 0 when a norm is 0, else dotProduct / (normA * normB)
cosineSimilarity(vecA, vecB) ==
  IF Len(vecA) # Len(vecB) THEN [outcome |-> "threw", value |-> Zero]
  ELSE LET dotProduct == dot(vecA, vecB)
           normA == sqrt(dot(vecA, vecA))
           normB == sqrt(dot(vecB, vecB))
       IN  [outcome |-> "returned",
            value |-> IF normA = Zero \/ normB = Zero THEN Zero
                      ELSE divide(dotProduct, times(normA, normB))]

\* the vectors handed to cosineSimilarity directly
Components == {-1, 0, 1, 2}

Vectors == UNION {[1..n -> Components] : n \in 0..MaxDim}

\* no call of cosineSimilarity yet
NoSimilarity == [outcome |-> "none", value |-> Zero]

\* --------------------------------------------------------- hybrid fusion
\* relevanceScore * 0.7 and * 0.3 (scores are stored in tenths of a point
\* and every score entering the fusion is a whole number of points)
Times07(score) == (score * 7) \div 10
Times03(score) == (score * 3) \div 10

hasId(results, id) == \E k \in 1..Len(results) : results[k].id = id

\* the keyword share replaces the entry's score (= in place of +=)
RECURSIVE mergeKeyword_Overwrites(_, _)
mergeKeyword_Overwrites(combined, keywordResults) ==
  IF keywordResults = <<>> THEN combined
  ELSE LET r == Head(keywordResults)
           share == Times03(r.relevanceScore)
       IN  mergeKeyword_Overwrites(
             IF hasId(combined, r.id)
               THEN [k \in 1..Len(combined) |->
                       IF combined[k].id = r.id
                         THEN [combined[k] EXCEPT !.relevanceScore = share]
                         ELSE combined[k]]
               ELSE Append(combined, [r EXCEPT !.relevanceScore = share]),
             Tail(keywordResults))

\* keywordResults.forEach of searchArticlesHybrid: add 30% of the keyword
\* score to the entry of the same id, or insert a new entry at the end
RECURSIVE mergeKeyword(_, _)
mergeKeyword(combined, keywordResults) ==
  IF keywordResults = <<>> THEN combined
  ELSE LET r == Head(keywordResults)
           share == Times03(r.relevanceScore)
       IN  mergeKeyword(
             IF hasId(combined, r.id)
               THEN [k \in 1..Len(combined) |->
                       IF combined[k].id = r.id
                         THEN [combined[k] EXCEPT !.relevanceScore = @ + share]
                         ELSE combined[k]]
               ELSE Append(combined, [r EXCEPT !.relevanceScore = share]),
             Tail(keywordResults))

\* the values of the map are returned as they were inserted, unsorted
combine_Unsorted(aiResults, keywordResults) ==
  mergeKeyword([k \in 1..Len(aiResults) |->
                  [aiResults[k] EXCEPT !.relevanceScore = Times07(@)]],
               keywordResults)

\* the body of searchArticlesHybrid after both result lists are in
combine(aiResults, keywordResults) ==
  sortByScore(
    mergeKeyword([k \in 1..Len(aiResults) |->
                    [aiResults[k] EXCEPT !.relevanceScore = Times07(@)]],
                 keywordResults))

\* ------------------------------------------------------------------ state
VARIABLES
  articles,     \* the corpus array; an article gains the field embedding
  embedder,     \* EmbeddingService.embedder is set (not null)
  isLoading,    \* EmbeddingService.isLoading
  loadPromise,  \* EmbeddingService.loadPromise: 0 is null, else an index of loads
  loads,        \* the promises initialize() has created, each pending/resolved/rejected
  kind,         \* per call: the function that was called
  query,        \* per call: its query (or the text of embed)
  pc,           \* per call: where it is suspended
  stage,        \* per call and slot: progress of that embed(); slot 0 is the
                \* query or text, slot i the article at index i
  awaited,      \* per call and slot: the load promise an initialize() awaits
  scores,       \* per call and article: relevanceScore of the map callback
  outcome,      \* per call: returned / threw
  result,       \* per call: the value returned
  embedCalls,   \* per article: embed() invocations for its text, so far
  embedWrites,  \* per article: assignments to article.embedding, so far
  vecA, vecB,   \* the arguments of a direct call of cosineSimilarity
  similarity,   \* what that call did: its outcome and the value returned
  loadModels,   \* Search page: where the loadModels effect is suspended
  aiModelLoading,        \* Search page state
  isSearching,           \* Search page state
  searchResults,         \* Search page state: the results on display
  summarizationReady,    \* Search page state
  currentlySummarizing,  \* Search page state: the article (its id for its title), 0 for null
  searchCall,   \* the search call handleSearch awaits, 0 for none
  toasts,       \* the titles of the toasts shown so far
  summaries,    \* the article ids with a generateArticleSummary() in flight
  summarizer,   \* SummarizationService.summarizer is set (not null)
  isInitializing,        \* SummarizationService.isInitializing
  initPromise   \* SummarizationService.initPromise: null / pending / resolved / rejected

service == <<embedder, isLoading, loadPromise, loads>>
calls == <<kind, query, pc, stage, awaited, scores, outcome, result>>
cosine == <<vecA, vecB, similarity>>
summarization == <<summarizer, isInitializing, initPromise>>
page == <<loadModels, aiModelLoading, isSearching, searchResults, summarizationReady,
          currentlySummarizing, searchCall, toasts, summaries, summarization>>
vars == <<articles, service, calls, embedCalls, embedWrites, cosine, page>>

Calls == 1..MaxCalls
Indexes == 1..Len(articles)
Slots == 0..Len(articles)
SearchKinds == {"searchArticlesAI", "searchArticlesHybrid"}

\* the service as constructed, and no call made yet
Idle ==
  /\ embedder = FALSE
  /\ isLoading = FALSE
  /\ loadPromise = 0
  /\ loads = <<>>
  /\ kind = [c \in Calls |-> "none"]
  /\ query = [c \in Calls |-> <<>>]
  /\ pc = [c \in Calls |-> "idle"]
  /\ stage = [c \in Calls |-> [s \in Slots |-> "none"]]
  /\ awaited = [c \in Calls |-> [s \in Slots |-> 0]]
  /\ scores = [c \in Calls |-> [i \in Indexes |-> 0]]
  /\ outcome = [c \in Calls |-> "none"]
  /\ result = [c \in Calls |-> <<>>]
  /\ embedCalls = [i \in Indexes |-> 0]
  /\ embedWrites = [i \in Indexes |-> 0]

\* cosineSimilarity is not called directly
NoCosine ==
  /\ vecA = <<>>
  /\ vecB = <<>>
  /\ similarity = NoSimilarity

\* the Search page as first rendered (its useState initial values, the
\* loadModels effect not yet run) and the SummarizationService as constructed
Rendered ==
  /\ loadModels = "unmounted"
  /\ aiModelLoading = TRUE
  /\ isSearching = FALSE
  /\ searchResults = allWithZero(articles)
  /\ summarizationReady = FALSE
  /\ currentlySummarizing = 0
  /\ searchCall = 0
  /\ toasts = {}
  /\ summaries = {}
  /\ summarizer = FALSE
  /\ isInitializing = FALSE
  /\ initPromise = "null"

Init ==
  /\ articles \in Corpora
  /\ Idle
  /\ NoCosine
  /\ Rendered

\* ------------------------------------------------------- EmbeddingService
\* isReady()
isReady == embedder /\ ~isLoading

\* isModelLoading()
isModelLoading == isLoading

\* initialize() without the isLoading test: every caller that finds no
\* embedder starts a load of its own
initialize_NoLoadingTest ==
  IF embedder
    THEN UNCHANGED <<isLoading, loadPromise, loads>>
    ELSE /\ isLoading' = TRUE
         /\ loads' = Append(loads, "pending")
         /\ loadPromise' = Len(loads) + 1

\* initialize() without the embedder test: a call on a loaded service
\* loads again
initialize_NoEmbedderTest ==
  IF isLoading
    THEN UNCHANGED <<isLoading, loadPromise, loads>>
    ELSE /\ isLoading' = TRUE
         /\ loads' = Append(loads, "pending")
         /\ loadPromise' = Len(loads) + 1

\* initialize() that keeps a settled loadPromise and hands it out again
initialize_KeepsPromise ==
  IF embedder \/ isLoading \/ loadPromise # 0
    THEN UNCHANGED <<isLoading, loadPromise, loads>>
    ELSE /\ isLoading' = TRUE
         /\ loads' = Append(loads, "pending")
         /\ loadPromise' = Len(loads) + 1

\* initialize(), up to its await: what it does to the service.  It starts a
\* load only when there is no embedder and no load in flight.
initialize ==
  IF embedder \/ isLoading
    THEN UNCHANGED <<isLoading, loadPromise, loads>>
    ELSE /\ isLoading' = TRUE
         /\ loads' = Append(loads, "pending")
         /\ loadPromise' = Len(loads) + 1

\* embed(text), up to its first await, for the slots S of call c: with an
\* embedder it calls the backend, without it awaits initialize().  The
\* slots D are marked done in the same step.
enterEmbed(c, S, D) ==
  /\ IF embedder \/ S = {}
       THEN UNCHANGED <<isLoading, loadPromise, loads>>
       ELSE initialize
  /\ stage' = [stage EXCEPT ![c] =
       [s \in Slots |-> IF s \in S
                          THEN IF embedder THEN "backend" ELSE "initialize"
                          ELSE IF s \in D THEN "done" ELSE @[s]]]
  /\ awaited' = [awaited EXCEPT ![c] =
       [s \in Slots |-> IF s \in S /\ ~embedder THEN loadPromise' ELSE @[s]]]

\* the call returns value
returns(c, value) ==
  /\ pc' = [pc EXCEPT ![c] = "done"]
  /\ outcome' = [outcome EXCEPT ![c] = "returned"]
  /\ result' = [result EXCEPT ![c] = value]

\* calls are numbered in the order they are made
canStart(c) ==
  /\ pc[c] = "idle"
  /\ IF c = 1 THEN TRUE ELSE pc[c - 1] # "idle"

\* ---------------------------------------------------------------- search
\* the callback writes its scores into the article itself instead of a copy
withEmbedding_Scored(article, vector) ==
  [f \in DOMAIN article \cup {"embedding", "relevanceScore"} |->
     IF f = "embedding" THEN vector
     ELSE IF f = "relevanceScore" THEN 0
     ELSE article[f]]

\* article.embedding = vector
withEmbedding(article, vector) ==
  [f \in DOMAIN article \cup {"embedding"} |->
     IF f = "embedding" THEN vector ELSE article[f]]

\* the test of article.embedding is lost: every search embeds every article
hasEmbedding_Never(article) == FALSE

\* !article.embedding is false
hasEmbedding(article) == "embedding" \in DOMAIN article

\* the filter on relevanceScore > 10 is lost
aiRanked_Unfiltered(sc) ==
  sortByScore([i \in Indexes |-> Result(articles[i], Points(sc[i]))])

\* the filter and sort that end searchArticlesAI, over the scores sc
aiRanked(sc) ==
  sortByScore(
    SelectSeq([i \in Indexes |-> Result(articles[i], Points(sc[i]))],
              LAMBDA r : r.relevanceScore > Points(10)))

\* the query is kept in one place that the latest search overwrites
finished_LatestQuery(c, aiResults) ==
  LET last == CHOOSE d \in Calls :
                /\ kind[d] # "none"
                /\ \A e \in Calls : e > d => kind[e] = "none"
  IN  IF kind[c] = "searchArticlesHybrid"
        THEN combine(aiResults, searchArticlesKeyword(query[last], articles))
        ELSE aiResults

\* what call c returns once searchArticlesAI has its result: a call of
\* searchArticlesHybrid combines it with the keyword results
finished(c, aiResults) ==
  IF kind[c] = "searchArticlesHybrid"
    THEN combine(aiResults, searchArticlesKeyword(query[c], articles))
    ELSE aiResults

\* a catch block that returns no results
fallbackResult_Empty(c) == finished(c, <<>>)

\* the catch block of searchArticlesAI: the keyword search stands in
fallbackResult(c) == finished(c, searchArticlesKeyword(query[c], articles))

\* every caller swallows the error, as preloadAIModel does
outcomeOnError_Swallowed(k) == "returned"

\* how a call of kind k ends when an embedding step of it throws: embed()
\* and initialize() pass the error on, the searches catch it
outcomeOnError(k) == IF k \in SearchKinds THEN "returned" ELSE "threw"

\* embed() of slot s of call c throws
embedFailure(c, s) ==
  /\ stage' = [stage EXCEPT ![c][s] = "failed"]
  /\ IF pc[c] = "done"
       THEN UNCHANGED <<pc, outcome, result>>
       ELSE /\ pc' = [pc EXCEPT ![c] = "done"]
            /\ outcome' = [outcome EXCEPT ![c] = outcomeOnError(kind[c])]
            /\ result' = [result EXCEPT ![c] =
                            IF kind[c] \in SearchKinds THEN fallbackResult(c) ELSE @]

\* ---------------------------------------------------------------- actions
\* a caller calls embeddingService.initialize()
CallInitialize(c) ==
  /\ canStart(c)
  /\ kind' = [kind EXCEPT ![c] = "initialize"]
  /\ initialize
  /\ IF embedder
       THEN returns(c, <<>>) /\ UNCHANGED awaited
       ELSE /\ pc' = [pc EXCEPT ![c] = "initialize"]
            /\ awaited' = [awaited EXCEPT ![c][0] = loadPromise']
            /\ UNCHANGED <<outcome, result>>
  /\ UNCHANGED <<articles, embedder, query, stage, scores, embedCalls, embedWrites, cosine>>

\* a caller calls embeddingService.embed(text)
CallEmbed(c, text) ==
  /\ canStart(c)
  /\ kind' = [kind EXCEPT ![c] = "embed"]
  /\ query' = [query EXCEPT ![c] = text]
  /\ enterEmbed(c, {0}, {})
  /\ pc' = [pc EXCEPT ![c] = "embed"]
  /\ UNCHANGED <<articles, embedder, scores, outcome, result, embedCalls, embedWrites, cosine>>

\* a caller calls searchArticlesKeyword(q, articles)
CallSearchKeyword(c, q) ==
  /\ canStart(c)
  /\ kind' = [kind EXCEPT ![c] = "searchArticlesKeyword"]
  /\ query' = [query EXCEPT ![c] = q]
  /\ returns(c, searchArticlesKeyword(q, articles))
  /\ UNCHANGED <<articles, service, stage, awaited, scores, embedCalls, embedWrites, cosine>>

\* a caller calls searchArticlesAI or searchArticlesHybrid (k) with q.  Not
\* ready, the search awaits initialize(), which returns at once when the
\* embedder is set; then it calls embed(query).
CallSearch(c, k, q) ==
  /\ canStart(c)
  /\ kind' = [kind EXCEPT ![c] = k]
  /\ query' = [query EXCEPT ![c] = q]
  /\ IF trim(q) = <<>>
       THEN /\ returns(c, allWithZero(articles))
            /\ UNCHANGED <<isLoading, loadPromise, loads, stage, awaited>>
       ELSE IF isReady \/ embedder
         THEN /\ enterEmbed(c, {0}, {})
              /\ pc' = [pc EXCEPT ![c] = "embed"]
              /\ UNCHANGED <<outcome, result>>
         ELSE /\ initialize
              /\ pc' = [pc EXCEPT ![c] = "initialize"]
              /\ awaited' = [awaited EXCEPT ![c][0] = loadPromise']
              /\ UNCHANGED <<stage, outcome, result>>
  /\ UNCHANGED <<articles, embedder, scores, embedCalls, embedWrites, cosine>>

\* initialize() of call c is suspended on load promise l
awaitsLoad(c, l) == pc[c] = "initialize" /\ awaited[c][0] = l

\* embed() of slot s of call c is suspended on initialize(), itself
\* suspended on load promise l
embedAwaitsLoad(c, s, l) == stage[c][s] = "initialize" /\ awaited[c][s] = l

\* pipeline() of load l resolves.  The continuation of the load sets the
\* embedder and resolves the promise; every initialize() suspended on it
\* returns in the same turn of the task queue: a caller's initialize() is
\* done, a search goes on to embed(query), an embed() calls the backend.
LoadResolve(l) ==
  /\ loads[l] = "pending"
  /\ embedder' = TRUE
  /\ isLoading' = FALSE
  /\ loads' = [loads EXCEPT ![l] = "resolved"]
  /\ pc' = [c \in Calls |->
              IF awaitsLoad(c, l)
                THEN IF kind[c] = "initialize" THEN "done" ELSE "embed"
                ELSE pc[c]]
  /\ outcome' = [c \in Calls |->
                   IF awaitsLoad(c, l) /\ kind[c] = "initialize"
                     THEN "returned" ELSE outcome[c]]
  /\ stage' = [c \in Calls |-> [s \in Slots |->
                 IF \/ embedAwaitsLoad(c, s, l)
                    \/ (s = 0 /\ awaitsLoad(c, l) /\ kind[c] \in SearchKinds)
                   THEN IF embedder' THEN "backend" ELSE "failed"
                   ELSE stage[c][s]]]
  /\ UNCHANGED <<articles, loadPromise, kind, query, awaited, scores, result,
                 embedCalls, embedWrites, cosine>>

\* the catch block of the load forgets to clear isLoading
LoadReject_KeepsLoading(l) ==
  LET woken(c) == \/ awaitsLoad(c, l)
                  \/ (pc[c] # "done" /\ \E s \in Slots : embedAwaitsLoad(c, s, l))
  IN  /\ loads[l] = "pending"
      /\ loads' = [loads EXCEPT ![l] = "rejected"]
      /\ pc' = [c \in Calls |-> IF woken(c) THEN "done" ELSE pc[c]]
      /\ outcome' = [c \in Calls |->
                       IF woken(c) THEN outcomeOnError(kind[c]) ELSE outcome[c]]
      /\ result' = [c \in Calls |->
                      IF woken(c) /\ kind[c] \in SearchKinds
                        THEN fallbackResult(c) ELSE result[c]]
      /\ stage' = [c \in Calls |-> [s \in Slots |->
                     IF embedAwaitsLoad(c, s, l) THEN "failed" ELSE stage[c][s]]]
      /\ UNCHANGED <<articles, embedder, isLoading, loadPromise, kind, query, awaited,
                     scores, embedCalls, embedWrites, cosine>>

\* pipeline() of load l rejects.  The catch block of the load clears
\* isLoading and rejects the promise; every initialize() suspended on it
\* throws in the same turn: into its caller, into embed() and its caller,
\* or into the catch block of searchArticlesAI.
LoadReject(l) ==
  LET woken(c) == \/ awaitsLoad(c, l)
                  \/ (pc[c] # "done" /\ \E s \in Slots : embedAwaitsLoad(c, s, l))
  IN  /\ loads[l] = "pending"
      /\ isLoading' = FALSE
      /\ loads' = [loads EXCEPT ![l] = "rejected"]
      /\ pc' = [c \in Calls |-> IF woken(c) THEN "done" ELSE pc[c]]
      /\ outcome' = [c \in Calls |->
                       IF woken(c) THEN outcomeOnError(kind[c]) ELSE outcome[c]]
      /\ result' = [c \in Calls |->
                      IF woken(c) /\ kind[c] \in SearchKinds
                        THEN fallbackResult(c) ELSE result[c]]
      /\ stage' = [c \in Calls |-> [s \in Slots |->
                     IF embedAwaitsLoad(c, s, l) THEN "failed" ELSE stage[c][s]]]
      /\ UNCHANGED <<articles, embedder, loadPromise, kind, query, awaited, scores,
                     embedCalls, embedWrites, cosine>>

\* the backend call of a caller's own embed(text) resolves
EmbedResolve(c) ==
  /\ kind[c] = "embed"
  /\ stage[c][0] = "backend"
  /\ stage' = [stage EXCEPT ![c][0] = "done"]
  /\ returns(c, ModelOutput(query[c]))
  /\ UNCHANGED <<articles, service, kind, query, awaited, scores, embedCalls, embedWrites, cosine>>

\* embed(query) of a search resolves: the search maps over the articles.
\* An article with an embedding is scored at once; for one without, the
\* callback calls embed(articleText) and suspends.
QueryEmbedded(c) ==
  LET queryEmbedding == ModelOutput(query[c])
      missing == {i \in Indexes : ~hasEmbedding(articles[i])}
      cached == Indexes \ missing
      mismatch == \E i \in cached :
                    Len(articles[i].embedding) # Len(queryEmbedding)
  IN  /\ kind[c] \in SearchKinds
      /\ pc[c] = "embed"
      /\ stage[c][0] = "backend"
      /\ enterEmbed(c, missing, cached \cup {0})
      /\ embedCalls' = [i \in Indexes |->
                          IF i \in missing THEN embedCalls[i] + 1 ELSE embedCalls[i]]
      /\ scores' = [scores EXCEPT ![c] =
           [i \in Indexes |->
              IF i \in cached /\ Len(articles[i].embedding) = Len(queryEmbedding)
                THEN similarityPercent(queryEmbedding, articles[i].embedding)
                ELSE 0]]
      /\ IF mismatch THEN returns(c, fallbackResult(c))
         ELSE IF missing = {} THEN returns(c, finished(c, aiRanked(scores'[c])))
         ELSE /\ pc' = [pc EXCEPT ![c] = "docs"]
              /\ UNCHANGED <<outcome, result>>
      /\ UNCHANGED <<articles, embedder, kind, query, embedWrites, cosine>>

\* embed(articleText) of the map callback for article i resolves: the
\* callback stores the vector in the article and scores it; when it was the
\* last one, Promise.all resolves and the search returns
ArticleEmbedded(c, i) ==
  LET queryEmbedding == ModelOutput(query[c])
      vector == ModelOutput(articleText(articles[i]))
  IN  /\ stage[c][i] = "backend"
      /\ articles' = [articles EXCEPT ![i] = withEmbedding(@, vector)]
      /\ embedWrites' = [embedWrites EXCEPT ![i] = @ + 1]
      /\ IF Len(vector) # Len(queryEmbedding)
           THEN /\ embedFailure(c, i)
                /\ UNCHANGED scores
           ELSE /\ stage' = [stage EXCEPT ![c][i] = "done"]
                /\ scores' = [scores EXCEPT ![c][i] =
                                similarityPercent(queryEmbedding, vector)]
                /\ IF pc[c] = "docs"
                      /\ \A j \in Indexes \ {i} : stage[c][j] = "done"
                     THEN returns(c, finished(c, aiRanked(scores'[c])))
                     ELSE UNCHANGED <<pc, outcome, result>>
      /\ UNCHANGED <<service, kind, query, awaited, embedCalls, cosine>>

\* a failed inference that also drops the embedder
BackendReject_Unloads(c, s) ==
  /\ stage[c][s] = "backend"
  /\ embedFailure(c, s)
  /\ embedder' = FALSE
  /\ UNCHANGED <<articles, isLoading, loadPromise, loads, kind, query, awaited,
                 scores, embedCalls, embedWrites, cosine>>

\* the backend call of embed() for slot s of call c rejects
BackendReject(c, s) ==
  /\ stage[c][s] = "backend"
  /\ embedFailure(c, s)
  /\ UNCHANGED <<articles, service, kind, query, awaited, scores, embedCalls, embedWrites, cosine>>

Next ==
  \/ \E c \in Calls : CallInitialize(c) /\ UNCHANGED page
  \/ \E c \in Calls, text \in Texts : CallEmbed(c, text) /\ UNCHANGED page
  \/ \E c \in Calls, q \in Queries : CallSearchKeyword(c, q) /\ UNCHANGED page
  \/ \E c \in Calls, k \in SearchKinds, q \in Queries : CallSearch(c, k, q) /\ UNCHANGED page
  \/ \E l \in DOMAIN loads : LoadResolve(l) /\ UNCHANGED page
  \/ \E l \in DOMAIN loads : LoadReject(l) /\ UNCHANGED page
  \/ \E c \in Calls : EmbedResolve(c) /\ UNCHANGED page
  \/ \E c \in Calls : QueryEmbedded(c) /\ UNCHANGED page
  \/ \E c \in Calls, i \in Indexes : ArticleEmbedded(c, i) /\ UNCHANGED page
  \/ \E c \in Calls, s \in Slots : BackendReject(c, s) /\ UNCHANGED page

Spec == Init /\ [][Next]_vars

\* ------------------------------------------------------- a single search
\* the first call
first == CHOOSE c \in Calls : \A d \in Calls : c <= d

\* one search call over a corpus of the library
InitOneSearch ==
  /\ articles \in LibraryCorpora
  /\ Idle
  /\ NoCosine
  /\ Rendered

NextOneSearch ==
  \/ \E q \in KeywordQueries : CallSearchKeyword(first, q) /\ UNCHANGED page
  \/ \E k \in SearchKinds, q \in Queries : CallSearch(first, k, q) /\ UNCHANGED page
  \/ \E l \in DOMAIN loads : LoadResolve(l) /\ UNCHANGED page
  \/ \E l \in DOMAIN loads : LoadReject(l) /\ UNCHANGED page
  \/ QueryEmbedded(first) /\ UNCHANGED page
  \/ \E i \in Indexes : ArticleEmbedded(first, i) /\ UNCHANGED page
  \/ \E s \in Slots : BackendReject(first, s) /\ UNCHANGED page

SpecOneSearch == InitOneSearch /\ [][NextOneSearch]_vars

\* ----------------------------------------------------------- two searches
\* the call made after the first
second == first + 1

\* the queries of two searches that overlap
TwoQueries == {QueryOldMill, QueryZoos}

\* two search calls, the second made at any time after the first
NextTwoSearches ==
  \/ \E c \in {first, second}, k \in SearchKinds, q \in TwoQueries : CallSearch(c, k, q) /\ UNCHANGED page
  \/ \E l \in DOMAIN loads : LoadResolve(l) /\ UNCHANGED page
  \/ \E l \in DOMAIN loads : LoadReject(l) /\ UNCHANGED page
  \/ \E c \in {first, second} : QueryEmbedded(c) /\ UNCHANGED page
  \/ \E c \in {first, second}, i \in Indexes : ArticleEmbedded(c, i) /\ UNCHANGED page
  \/ \E c \in {first, second}, s \in Slots : BackendReject(c, s) /\ UNCHANGED page

\* an inference call is at the backend: exactly then BackendReject, and with
\* it the settling of that call, is enabled
inferencePending == \E c \in Calls, s \in Slots : stage[c][s] = "backend"

\* The promises of the backend settle.  A load in flight resolves or
\* rejects (weak fairness of its two outcomes).  No inference call stays
\* pending for ever: as a call settles once, weak fairness of the settling
\* steps is this condition on the states.
PromisesSettle ==
  /\ WF_vars(\E l \in DOMAIN loads : (LoadResolve(l) \/ LoadReject(l)) /\ UNCHANGED page)
  /\ []<>(~inferencePending)

SpecTwoSearches == Init /\ [][NextTwoSearches]_vars /\ PromisesSettle

\* ------------------------------------------- cosineSimilarity on its own
\* a caller hands two vectors to cosineSimilarity
InitCosine ==
  /\ articles = <<>>
  /\ Idle
  /\ vecA \in Vectors
  /\ vecB \in Vectors
  /\ similarity = NoSimilarity
  /\ Rendered

\* the call cosineSimilarity(vecA, vecB)
CallCosineSimilarity ==
  /\ similarity.outcome = "none"
  /\ similarity' = cosineSimilarity(vecA, vecB)
  /\ UNCHANGED <<articles, service, calls, embedCalls, embedWrites, vecA, vecB>>

NextCosine == CallCosineSimilarity /\ UNCHANGED page

SpecCosine == InitCosine /\ [][NextCosine]_vars

\* --------------------------------------------------------- the Search page
\* The page (pages/Search.tsx) calls the search functions for the user.  Its
\* handlers are async functions too: an action is a handler up to its await,
\* or the continuation that the awaited promise wakes.

\* summaries requested at one time (the Summarize buttons of other cards
\* stay enabled while one summary is generated)
MaxSummaries == 1

\* preloadAIModel without its catch block: the error reaches loadModels
preloadAIModel_Rethrows(initialized) == initialized

\* preloadAIModel(): how it ends when its await of initialize() ended as
\* given.  The catch block logs the error and the function returns.
preloadAIModel(initialized) == "returned"

\* DocumentCard shows the Summarize button whatever canSummarize is
canSummarize_Always == TRUE

\* the prop canSummarize={summarizationReady}: DocumentCard renders the
\* Summarize button only with it
canSummarize == summarizationReady

\* SearchBar disabled={isSearching || aiModelLoading}
disabled == isSearching \/ aiModelLoading

\* SummarizationService.initialize(), up to its await
initializeSummarizer ==
  IF summarizer \/ (isInitializing /\ initPromise # "null")
    THEN UNCHANGED <<isInitializing, initPromise>>
    ELSE /\ isInitializing' = TRUE
         /\ initPromise' = "pending"

\* the effect of the page runs on mount: loadModels() sets aiModelLoading
\* and awaits preloadAIModel(), which awaits embeddingService.initialize()
Mount ==
  /\ loadModels = "unmounted"
  /\ aiModelLoading' = TRUE
  /\ CallInitialize(first)
  /\ loadModels' = "preloadAIModel"
  /\ UNCHANGED <<isSearching, searchResults, summarizationReady, currentlySummarizing,
                 searchCall, toasts, summaries, summarization>>

\* preloadAIModel() has settled: loadModels clears aiModelLoading, shows the
\* toast and awaits preloadSummarizationModel(), that is
\* summarizationService.initialize()
PreloadSettled ==
  /\ loadModels = "preloadAIModel"
  /\ pc[first] = "done"
  /\ IF preloadAIModel(outcome[first]) = "returned"
       THEN /\ aiModelLoading' = FALSE
            /\ toasts' = toasts \cup {"AI Model Ready"}
            /\ initializeSummarizer
            /\ summarizer' = summarizer
            /\ loadModels' = "preloadSummarizationModel"
       ELSE /\ loadModels' = "threw"
            /\ UNCHANGED <<aiModelLoading, toasts, summarization>>
  /\ UNCHANGED <<isSearching, searchResults, summarizationReady, currentlySummarizing,
                 searchCall, summaries>>
  /\ UNCHANGED <<articles, service, calls, embedCalls, embedWrites, cosine>>

\* pipeline() of the summarization model resolves: the service keeps the
\* summarizer, preloadSummarizationModel() returns, and loadModels sets
\* summarizationReady and shows the toast
SummarizerResolve ==
  /\ initPromise = "pending"
  /\ summarizer' = TRUE
  /\ isInitializing' = FALSE
  /\ initPromise' = "resolved"
  /\ IF loadModels = "preloadSummarizationModel"
       THEN /\ summarizationReady' = TRUE
            /\ toasts' = toasts \cup {"Summarization Ready"}
            /\ loadModels' = "done"
       ELSE UNCHANGED <<summarizationReady, toasts, loadModels>>
  /\ UNCHANGED <<aiModelLoading, isSearching, searchResults, currentlySummarizing,
                 searchCall, summaries>>
  /\ UNCHANGED <<articles, service, calls, embedCalls, embedWrites, cosine>>

\* pipeline() of the summarization model rejects: the service clears the
\* summarizer and rethrows, and the catch block of loadModels logs the error
SummarizerReject ==
  /\ initPromise = "pending"
  /\ summarizer' = FALSE
  /\ isInitializing' = FALSE
  /\ initPromise' = "rejected"
  /\ IF loadModels = "preloadSummarizationModel"
       THEN loadModels' = "done"
       ELSE UNCHANGED loadModels
  /\ UNCHANGED <<aiModelLoading, isSearching, searchResults, summarizationReady,
                 currentlySummarizing, searchCall, toasts, summaries>>
  /\ UNCHANGED <<articles, service, calls, embedCalls, embedWrites, cosine>>

\* the user submits q in the search bar, which is not disabled:
\* handleSearch(q) sets isSearching and awaits searchArticlesHybrid
handleSearch(c, q) ==
  /\ loadModels # "unmounted"
  /\ ~disabled
  /\ isSearching' = TRUE
  /\ CallSearch(c, "searchArticlesHybrid", q)
  /\ searchCall' = c
  /\ UNCHANGED <<loadModels, aiModelLoading, searchResults, summarizationReady,
                 currentlySummarizing, toasts, summaries, summarization>>

\* the search awaited by handleSearch has settled: the results are shown
\* with a toast, or the catch block shows the error toast; the finally
\* block clears isSearching
SearchSettled ==
  /\ searchCall # 0
  /\ pc[searchCall] = "done"
  /\ IF outcome[searchCall] = "returned"
       THEN /\ searchResults' = result[searchCall]
            /\ toasts' = toasts \cup {IF query[searchCall] = <<>>
                                        THEN "Showing all articles"
                                        ELSE "AI Search completed"}
       ELSE /\ toasts' = toasts \cup {"Search error"}
            /\ UNCHANGED searchResults
  /\ isSearching' = FALSE
  /\ searchCall' = 0
  /\ UNCHANGED <<loadModels, aiModelLoading, summarizationReady, currentlySummarizing,
                 summaries, summarization>>
  /\ UNCHANGED <<articles, service, calls, embedCalls, embedWrites, cosine>>

\* the user clicks Summarize on the card of result k: the button is there
\* with canSummarize and is disabled while that card is being summarized.
\* handleSummarize marks the card, shows a toast and awaits
\* generateArticleSummary(), which awaits initialize() without a summarizer
handleSummarize(k) ==
  /\ loadModels # "unmounted"
  /\ canSummarize
  /\ currentlySummarizing # searchResults[k].id
  /\ searchResults[k].id \notin summaries
  /\ Cardinality(summaries) < MaxSummaries
  /\ currentlySummarizing' = searchResults[k].id
  /\ toasts' = toasts \cup {"Generating Summary"}
  /\ summaries' = summaries \cup {searchResults[k].id}
  /\ IF summarizer
       THEN UNCHANGED <<isInitializing, initPromise>>
       ELSE initializeSummarizer
  /\ summarizer' = summarizer
  /\ UNCHANGED <<loadModels, aiModelLoading, isSearching, searchResults,
                 summarizationReady, searchCall>>
  /\ UNCHANGED <<articles, service, calls, embedCalls, embedWrites, cosine>>

\* generateArticleSummary() for article id has settled.  With a summarizer
\* it returns a summary (the model's, or the extractive one from its catch
\* block); when the initialize() it awaited failed, it throws and the catch
\* block of handleSummarize shows the error.  The finally block clears
\* currentlySummarizing.
SummarySettled(id) ==
  /\ id \in summaries
  /\ summarizer \/ initPromise = "rejected"
  /\ toasts' = toasts \cup {IF summarizer THEN "Summary Generated"
                                         ELSE "Summarization error"}
  /\ currentlySummarizing' = 0
  /\ summaries' = summaries \ {id}
  /\ UNCHANGED <<loadModels, aiModelLoading, isSearching, searchResults,
                 summarizationReady, searchCall, summarization>>
  /\ UNCHANGED <<articles, service, calls, embedCalls, embedWrites, cosine>>

NextPage ==
  \/ Mount
  \/ PreloadSettled
  \/ SummarizerResolve
  \/ SummarizerReject
  \/ \E c \in Calls, q \in Queries : handleSearch(c, q)
  \/ SearchSettled
  \/ \E k \in DOMAIN searchResults : handleSummarize(k)
  \/ \E id \in summaries : SummarySettled(id)
  \/ \E l \in DOMAIN loads : LoadResolve(l) /\ UNCHANGED page
  \/ \E l \in DOMAIN loads : LoadReject(l) /\ UNCHANGED page
  \/ \E c \in Calls : QueryEmbedded(c) /\ UNCHANGED page
  \/ \E c \in Calls, i \in Indexes : ArticleEmbedded(c, i) /\ UNCHANGED page
  \/ \E c \in Calls, s \in Slots : BackendReject(c, s) /\ UNCHANGED page

\* The task queue runs a continuation once the promise it awaits has
\* settled: the rest of loadModels after preloadAIModel(), the rest of
\* handleSearch after the search.
ContinuationsRun ==
  /\ WF_vars(PreloadSettled)
  /\ WF_vars(SearchSettled)

SpecPage == Init /\ [][NextPage]_vars /\ PromisesSettle /\ ContinuationsRun

\* ------------------------------------------------ the model-load lifecycle
\* the loads whose pipeline() call has not settled
pendingLoads == {l \in DOMAIN loads : loads[l] = "pending"}

\* the load promises some initialize() is suspended on
awaitedLoads ==
  {l \in 0..Len(loads) :
     \E c \in Calls : \/ awaitsLoad(c, l)
                      \/ \E s \in Slots : embedAwaitsLoad(c, s, l)}

\* ModelState of the service: Loading while isLoading, Ready with an
\* embedder, Failed when the last load was rejected, else Unloaded
ModelState ==
  IF isLoading THEN "Loading"
  ELSE IF embedder THEN "Ready"
  ELSE IF loadPromise # 0 /\ loads[loadPromise] = "rejected" THEN "Failed"
  ELSE "Unloaded"

TransitionsAllowed ==
  {<<"Unloaded", "Loading">>, <<"Loading", "Ready">>,
   <<"Loading", "Failed">>, <<"Failed", "Loading">>}

\* call c is made in this step, as a call of a kind in K
isCalled(c, K) == kind[c] = "none" /\ kind'[c] \in K

\* C1: single-flight load.  At most one load is in flight at any time, and
\* every initialize() that is suspended awaits that load, the one in
\* loadPromise: no caller that arrives during a load starts a second one.
C1_SingleFlight ==
  /\ Cardinality(pendingLoads) <= 1
  /\ \A l \in awaitedLoads : l = loadPromise /\ loads[l] = "pending"

\* two callers share one load in flight
C1_Witness ==
  \E c, d \in Calls :
    /\ c # d
    /\ kind[c] = "initialize" /\ pc[c] = "initialize"
    /\ kind[d] = "embed" /\ stage[d][0] = "initialize"
    /\ awaited[c][0] = awaited[d][0]
    /\ loads[awaited[c][0]] = "pending"

\* C2: the model state changes only along Unloaded->Loading,
\* Loading->Ready, Loading->Failed and Failed->Loading.
C2_Transitions ==
  [][ModelState' # ModelState => <<ModelState, ModelState'>> \in TransitionsAllowed]_vars

\* a failed load, then a retry that succeeded: all four transitions taken
C2_Witness ==
  /\ Len(loads) = 2
  /\ loads[1] = "rejected"
  /\ loads[2] = "resolved"
  /\ ModelState = "Ready"

\* C3: Ready is stable.  From a Ready state every step leaves the service
\* Ready and its fields unchanged, and an initialize() called then returns
\* at once.
C3_ReadyStable ==
  [][ModelState = "Ready" =>
       /\ ModelState' = "Ready"
       /\ UNCHANGED <<embedder, isLoading, loadPromise, loads>>
       /\ \A c \in Calls :
            isCalled(c, {"initialize"}) =>
              pc'[c] = "done" /\ outcome'[c] = "returned"]_vars

\* on a Ready service an embed() has failed and an initialize() was called
\* and returned without awaiting anything
C3_Witness ==
  /\ ModelState = "Ready"
  /\ \E c \in Calls : stage[c][0] = "failed"
  /\ \E c \in Calls :
       kind[c] = "initialize" /\ awaited[c][0] = 0 /\ outcome[c] = "returned"

\* C4: retry after failure.  An initialize() or embed() called in Failed
\* starts a new load and awaits it, and a load that resolves makes the
\* service Ready.
C4_Retry ==
  [][/\ \A c \in Calls :
          (ModelState = "Failed" /\ isCalled(c, {"initialize", "embed"})) =>
            /\ Len(loads') = Len(loads) + 1
            /\ loads'[Len(loads')] = "pending"
            /\ awaited'[c][0] = Len(loads')
            /\ pc'[c] # "done"
            /\ ModelState' = "Loading"
     /\ \A l \in DOMAIN loads :
          (loads[l] = "pending" /\ loads'[l] = "resolved") => ModelState' = "Ready"
    ]_vars

\* an embed() called after a failed load awaited a second load, which
\* resolved, and the call returned its vector
C4_Witness ==
  \E c \in Calls :
    /\ kind[c] = "embed"
    /\ awaited[c][0] = 2
    /\ loads = <<"rejected", "resolved">>
    /\ outcome[c] = "returned"
    /\ result[c] = ModelOutput(query[c])

\* C5: an embed() called while the service is not Ready awaits
\* initialize(), on the load in flight or a new one; when the load awaited
\* by an embed() or initialize() call is rejected the call throws and
\* returns no value, for every caller that awaited that load.
C5_EmbedFailure ==
  /\ [][\A c \in Calls :
          (ModelState # "Ready" /\ isCalled(c, {"embed"})) =>
            /\ stage'[c][0] = "initialize"
            /\ awaited'[c][0] = loadPromise'
            /\ loads'[loadPromise'] = "pending"]_vars
  /\ [](\A c \in Calls :
          (/\ kind[c] \in {"embed", "initialize"}
           /\ awaited[c][0] # 0
           /\ loads[awaited[c][0]] = "rejected") =>
            outcome[c] = "threw" /\ result[c] = <<>>)

\* two embed() calls awaited the same load; it was rejected and both threw
C5_Witness ==
  \E c, d \in Calls :
    /\ c # d
    /\ kind[c] = "embed" /\ kind[d] = "embed"
    /\ awaited[c][0] = 1 /\ awaited[d][0] = 1
    /\ loads[1] = "rejected"
    /\ outcome[c] = "threw" /\ outcome[d] = "threw"

\* ------------------------------------------------------ the search calls
\* the query is empty or whitespace-only
IsBlank(q) == \A k \in 1..Len(q) : q[k] \in Whitespace

\* an embedding step of call c has failed: the load it awaited, the
\* embedding of its query or the embedding of one of the articles
embeddingFailed(c) ==
  \/ awaited[c][0] # 0 /\ loads[awaited[c][0]] = "rejected"
  \/ \E s \in Slots : stage[c][s] = "failed"

\* call c is a search that ran to the end of the semantic path
completedSemantic(c) ==
  /\ kind[c] \in SearchKinds
  /\ pc[c] = "done"
  /\ ~IsBlank(query[c])
  /\ \A s \in Slots : stage[c][s] = "done"

\* res is the pure-lexical result for q: exactly the articles with a
\* keyword score above 0, each once and with that score, highest first
IsLexicalResult(res, q) ==
  LET matching == {i \in Indexes : keywordScore(q, articles[i]) > 0}
  IN  /\ Len(res) = Cardinality(matching)
      /\ \A i \in matching :
           \E k \in 1..Len(res) :
             /\ res[k].id = articles[i].id
             /\ res[k].relevanceScore = Points(keywordScore(q, articles[i]))
      /\ \A k \in 1..(Len(res) - 1) :
           res[k].relevanceScore >= res[k + 1].relevanceScore

\* C6: lexical fallback.  When an embedding step of a searchArticlesHybrid
\* call has failed, the call has returned (not thrown) exactly the
\* pure-lexical result.
C6_LexicalFallback ==
  \A c \in Calls :
    (kind[c] = "searchArticlesHybrid" /\ embeddingFailed(c)) =>
      /\ pc[c] = "done"
      /\ outcome[c] = "returned"
      /\ IsLexicalResult(result[c], query[c])

\* the embedding of the first article failed, and the call returned both
\* articles, the second of the corpus first
C6_Witness ==
  \E c \in Calls :
    /\ kind[c] = "searchArticlesHybrid"
    /\ Len(articles) = 2
    /\ stage[c][1] = "failed"
    /\ Len(result[c]) = 2
    /\ result[c][1].id = articles[2].id

\* C7: for an empty or whitespace-only query each of the three search
\* functions returns, at once, one result per article, in corpus order,
\* each with relevanceScore 0.
C7_BlankQuery ==
  \A c \in Calls :
    (kind[c] \in SearchKinds \cup {"searchArticlesKeyword"} /\ IsBlank(query[c])) =>
      /\ pc[c] = "done"
      /\ outcome[c] = "returned"
      /\ Len(result[c]) = Len(articles)
      /\ \A i \in Indexes :
           result[c][i].id = articles[i].id /\ result[c][i].relevanceScore = 0

\* a whitespace-only hybrid search and an empty keyword search over two articles
C7_Witness ==
  \E c, d \in Calls :
    /\ kind[c] = "searchArticlesHybrid" /\ query[c] = QueryBlank
    /\ kind[d] = "searchArticlesKeyword" /\ query[d] = QueryEmpty
    /\ Len(articles) = 2
    /\ Len(result[c]) = 2 /\ Len(result[d]) = 2

\* C8: memoization.  embed() is not invoked for an article that already
\* has its vector, and once a search has run the semantic path to its end
\* no later step invokes embed() for any article.
C8_Memoized ==
  [][/\ \A i \in Indexes :
          "embedding" \in DOMAIN articles[i] => embedCalls'[i] = embedCalls[i]
     /\ (\E c \in Calls : completedSemantic(c)) => embedCalls' = embedCalls
    ]_vars

\* two searches with the same query over two articles both ran the
\* semantic path to its end, with one embed() per article in all
C8_Witness ==
  /\ Len(articles) = 2
  /\ \A c \in {1, 2} : completedSemantic(c) /\ query[c] = QueryOldMill
  /\ pc[1] = "done" /\ outcome[1] = "returned"
  /\ \A i \in Indexes : embedCalls[i] = 1

\* C9: each article's cached vector is written at most once.
C9_WrittenOnce == \A i \in Indexes : embedWrites[i] <= 1

indexOf(id) == CHOOSE i \in Indexes : articles[i].id = id

\* article i holds a vector of the length of the vector of query q
hasVector(q, i) ==
  /\ "embedding" \in DOMAIN articles[i]
  /\ Len(articles[i].embedding) = Len(ModelOutput(q))

\* semanticScore of article i for q: Math.round(similarity * 100)
semanticScore(q, i) == similarityPercent(ModelOutput(q), articles[i].embedding)

\* call c is a searchArticlesHybrid call with a non-blank query that is over
hybridDone(c) ==
  /\ kind[c] = "searchArticlesHybrid"
  /\ pc[c] = "done"
  /\ ~IsBlank(query[c])

\* call c ran the semantic path to its end and scored every article on
\* its vector
rankedSemantic(c) ==
  /\ completedSemantic(c)
  /\ \A i \in Indexes : hasVector(query[c], i)

\* C11, as stated: once the query vector is obtained, every document that
\* searchArticlesHybrid returns has relevanceScore = semanticScore * 0.7 +
\* lexicalScore * 0.3 (scores are stored in tenths: 7 and 3 per point).
C11_FusedOfBoth ==
  \A c \in Calls :
    (hybridDone(c) /\ stage[c][0] = "done") =>
      \A k \in 1..Len(result[c]) :
        LET i == indexOf(result[c][k].id)
        IN  hasVector(query[c], i) =>
              result[c][k].relevanceScore =
                7 * semanticScore(query[c], i)
                  + 3 * keywordScore(query[c], articles[i])

\* C11, amended: when every embedding of the call was obtained, every
\* document returned has relevanceScore = s * 0.7 + lexicalScore * 0.3,
\* where s is the semanticScore if that is above 10 and 0 otherwise (the
\* semantic list drops scores of 10 and less before the fusion).
C11_FusedAfterPrefilter ==
  \A c \in Calls :
    (kind[c] = "searchArticlesHybrid" /\ rankedSemantic(c)) =>
      \A k \in 1..Len(result[c]) :
        LET i == indexOf(result[c][k].id)
            sem == semanticScore(query[c], i)
        IN  result[c][k].relevanceScore =
              7 * (IF sem > 10 THEN sem ELSE 0)
                + 3 * keywordScore(query[c], articles[i])

\* a document with semanticScore 10 and lexicalScore 10 is returned with 3
\* points, after one with 71 and 35 returned with 60.2
C11_Witness ==
  \E c \in Calls :
    /\ kind[c] = "searchArticlesHybrid"
    /\ rankedSemantic(c)
    /\ Len(articles) = 2
    /\ articles[1].id = Doc6.id /\ semanticScore(query[c], 1) = 10
    /\ articles[2].id = Doc4.id /\ semanticScore(query[c], 2) = 71
    /\ result[c] = <<Result(Doc4, 602), Result(Doc6, 30)>>

\* C12: the results of searchArticlesHybrid for a non-empty query are in
\* descending order of relevanceScore: each one scores at least as much as
\* the next.
C12_MostRelevantFirst ==
  \A c \in Calls :
    hybridDone(c) =>
      \A k \in 1..(Len(result[c]) - 1) :
        result[c][k].relevanceScore >= result[c][k + 1].relevanceScore

\* the document found by keywords only was inserted last and comes first
C12_Witness ==
  \E c \in Calls :
    /\ hybridDone(c)
    /\ rankedSemantic(c)
    /\ Len(articles) = 2
    /\ articles[1].id = Doc3.id
    /\ articles[2].id = Doc7.id
    /\ result[c] = <<Result(Doc7, 630), Result(Doc3, 497)>>

\* C13: of two documents that searchArticlesHybrid returns with equal
\* relevanceScore, the one earlier in the corpus is earlier in the result.
C13_TiesInCorpusOrder ==
  \A c \in Calls :
    hybridDone(c) =>
      \A k, l \in 1..Len(result[c]) :
        (k < l /\ result[c][k].relevanceScore = result[c][l].relevanceScore) =>
          indexOf(result[c][k].id) < indexOf(result[c][l].id)

\* C14: for a non-empty query searchArticlesKeyword returns exactly the
\* documents of the corpus with a lexical score above 0, each once with
\* its score, in descending order of score and in corpus order among equal
\* scores; when no document matches the result is empty.
C14_LexicalResultSet ==
  \A c \in Calls :
    (kind[c] = "searchArticlesKeyword" /\ pc[c] = "done" /\ ~IsBlank(query[c])) =>
      LET res == result[c]
          matching == {i \in Indexes : keywordScore(query[c], articles[i]) > 0}
      IN  /\ Len(res) = Cardinality(matching)
          /\ \A i \in matching :
               \E k \in 1..Len(res) :
                 /\ res[k].id = articles[i].id
                 /\ res[k].relevanceScore =
                      10 * keywordScore(query[c], articles[i])
          /\ \A k \in 1..(Len(res) - 1) :
               \/ res[k].relevanceScore > res[k + 1].relevanceScore
               \/ /\ res[k].relevanceScore = res[k + 1].relevanceScore
                  /\ indexOf(res[k].id) < indexOf(res[k + 1].id)
          /\ (matching = {} => res = <<>>)

\* two documents of score 10 each are returned in corpus order
C14_Witness ==
  \E c \in Calls :
    /\ kind[c] = "searchArticlesKeyword"
    /\ query[c] = QueryOldMill
    /\ Len(articles) = 2
    /\ articles[1].id = Doc6.id
    /\ articles[2].id = Doc2.id
    /\ result[c] = <<Result(Doc6, 100), Result(Doc2, 100)>>

\* the places where a whitespace-separated token of q starts
tokenStarts(q) ==
  {i \in 1..Len(q) :
     /\ q[i] \notin Whitespace
     /\ IF i = 1 THEN TRUE ELSE q[i - 1] \in Whitespace}

\* the token of q that starts at place i, in lower case
tokenAt(q, i) ==
  LET stop == CHOOSE j \in i..Len(q) :
                /\ \A k \in i..j : q[k] \notin Whitespace
                /\ IF j = Len(q) THEN TRUE ELSE q[j + 1] \in Whitespace
  IN  toLowerCase(SubSeq(q, i, stop))

\* the sum the scoring table gives q and article
tableScore(q, article) ==
  LET phrase == toLowerCase(q)
      title == toLowerCase(article.title)
      description == toLowerCase(article.description)
      keywords == toLowerCase(article.keywords)
      long == {i \in tokenStarts(q) : Len(tokenAt(q, i)) > 2}
      tagPairs == {p \in long \X (1..Len(article.tags)) :
                     \/ includes(toLowerCase(article.tags[p[2]]), tokenAt(q, p[1]))
                     \/ includes(tokenAt(q, p[1]), toLowerCase(article.tags[p[2]]))}
  IN  (IF includes(title, phrase) THEN 100 ELSE 0)
    + (IF includes(description, phrase) THEN 50 ELSE 0)
    + (IF includes(toLowerCase(article.type), phrase) THEN 10 ELSE 0)
    + 20 * Cardinality({i \in long : includes(title, tokenAt(q, i))})
    + 10 * Cardinality({i \in long : includes(description, tokenAt(q, i))})
    + 5 * Cardinality({i \in long : includes(keywords, tokenAt(q, i))})
    + 15 * Cardinality(tagPairs)

\* C15: the lexical score of (query, document) is the sum of the scoring
\* table, compared in lower case: 100, 50 and 10 for the whole query in the
\* title, the description and the type; per token longer than 2 characters
\* 20, 10 and 5 for the title, the description and the keywords, and 15 per
\* matching tag.  searchArticlesKeyword returns each document whose sum is
\* above 0 with that sum, and no other document.
C15_ScoringTable ==
  \A c \in Calls :
    (kind[c] = "searchArticlesKeyword" /\ pc[c] = "done" /\ ~IsBlank(query[c])) =>
      \A i \in Indexes :
        LET points == tableScore(query[c], articles[i])
        IN  IF points > 0
              THEN \E k \in 1..Len(result[c]) :
                     /\ result[c][k].id = articles[i].id
                     /\ result[c][k].relevanceScore = 10 * points
              ELSE \A k \in 1..Len(result[c]) : result[c][k].id # articles[i].id

\* "at the mill" scores 110 on the first document: the phrase is in the
\* description, "the" and "mill" count as words, "at" does not
C15_Witness ==
  \E c \in Calls :
    /\ kind[c] = "searchArticlesKeyword"
    /\ query[c] = QueryAtTheMill
    /\ Len(articles) >= 1
    /\ articles[1].id = Doc1.id
    /\ result[c][1] = Result(Doc1, 1100)

\* C16: a search that compares the query vector with a document vector
\* of another length ends with an error, not with a result.
C16_MismatchAborts ==
  \A c \in Calls :
    (/\ kind[c] \in SearchKinds
     /\ pc[c] = "done"
     /\ stage[c][0] = "done"
     /\ \E i \in Indexes :
          /\ "embedding" \in DOMAIN articles[i]
          /\ Len(articles[i].embedding) # Len(ModelOutput(query[c]))) =>
      outcome[c] = "threw"

\* C17: when searchArticlesHybrid has returned, no embedding that the call
\* dispatched for a document is still in flight.
C17_NoneInFlightAtReturn ==
  \A c \in Calls :
    (kind[c] = "searchArticlesHybrid" /\ pc[c] = "done") =>
      \A i \in Indexes : stage[c][i] \notin {"initialize", "backend"}

\* -------------------------------------------------- membership and range
\* C23, as stated: with the query vector obtained, a document is in the
\* searchArticlesHybrid result if and only if its semanticScore is above 10
\* or its lexicalScore is above 0.
C23_MemberOnQueryVector ==
  \A c \in Calls :
    (hybridDone(c) /\ stage[c][0] = "done") =>
      \A i \in Indexes :
        hasVector(query[c], i) =>
          (hasId(result[c], articles[i].id)
             <=> \/ semanticScore(query[c], i) > 10
                 \/ keywordScore(query[c], articles[i]) > 0)

\* C23, amended: when every embedding of the call was obtained (the query
\* vector and a vector for every document), a document is in the
\* searchArticlesHybrid result if and only if its semanticScore is above 10
\* or its lexicalScore is above 0, whatever its fused score; a document
\* with lexicalScore 0 and semanticScore above 10 is returned with
\* semanticScore * 0.7.
C23_MemberWhenRanked ==
  \A c \in Calls :
    (kind[c] = "searchArticlesHybrid" /\ rankedSemantic(c)) =>
      \A i \in Indexes :
        LET sem == semanticScore(query[c], i)
            lex == keywordScore(query[c], articles[i])
            hits == {k \in 1..Len(result[c]) : result[c][k].id = articles[i].id}
        IN  /\ hits # {} <=> (sem > 10 \/ lex > 0)
            /\ Cardinality(hits) <= 1
            /\ (sem > 10 /\ lex = 0) =>
                 \A k \in hits : result[c][k].relevanceScore = 7 * sem

\* over a ranked corpus of two, the document with scores 86 and 0 is
\* returned with 60.2 and the one with scores 0 and 0 is not returned
C23_Witness ==
  \E c \in Calls :
    /\ kind[c] = "searchArticlesHybrid"
    /\ rankedSemantic(c)
    /\ Len(articles) = 2
    /\ articles[1].id = Doc10.id
    /\ semanticScore(query[c], 1) = 0
    /\ keywordScore(query[c], articles[1]) = 0
    /\ result[c] = <<Result(Doc5, 602)>>

\* the tokens of q longer than 2 characters, by their places
longTokens(q) == {i \in tokenStarts(q) : Len(tokenAt(q, i)) > 2}

\* token and tag match: one is a substring of the other, in lower case
tagMatches(token, tag) ==
  \/ includes(toLowerCase(tag), token)
  \/ includes(token, toLowerCase(tag))

\* the rows of the scoring table other than the tag row
otherPoints(q, article) ==
  LET phrase == toLowerCase(q)
      title == toLowerCase(article.title)
      description == toLowerCase(article.description)
      keywords == toLowerCase(article.keywords)
  IN  (IF includes(title, phrase) THEN 100 ELSE 0)
    + (IF includes(description, phrase) THEN 50 ELSE 0)
    + (IF includes(toLowerCase(article.type), phrase) THEN 10 ELSE 0)
    + 20 * Cardinality({i \in longTokens(q) : includes(title, tokenAt(q, i))})
    + 10 * Cardinality({i \in longTokens(q) : includes(description, tokenAt(q, i))})
    + 5 * Cardinality({i \in longTokens(q) : includes(keywords, tokenAt(q, i))})

\* the relevanceScore call c returned for article i, 0 when it is left out
returnedScore(c, i) ==
  IF hasId(result[c], articles[i].id)
    THEN LET k == CHOOSE k \in 1..Len(result[c]) : result[c][k].id = articles[i].id
         IN  result[c][k].relevanceScore
    ELSE 0

\* C24, as stated: the tag component of the lexical score is 15 times the
\* number of query words (longer than 2 characters) that match some tag.
C24_TagOncePerWord ==
  \A c \in Calls :
    (kind[c] = "searchArticlesKeyword" /\ pc[c] = "done" /\ ~IsBlank(query[c])) =>
      \A i \in Indexes :
        LET words == {t \in longTokens(query[c]) :
                        \E n \in 1..Len(articles[i].tags) :
                          tagMatches(tokenAt(query[c], t), articles[i].tags[n])}
        IN  returnedScore(c, i) =
              10 * (otherPoints(query[c], articles[i]) + 15 * Cardinality(words))

\* C24, amended: the tag component is 15 times the number of pairs of a
\* query word (longer than 2 characters) and a tag that match: a word that
\* matches two tags adds 30.
C24_TagPerWordAndTag ==
  \A c \in Calls :
    (kind[c] = "searchArticlesKeyword" /\ pc[c] = "done" /\ ~IsBlank(query[c])) =>
      \A i \in Indexes :
        LET pairs == {p \in longTokens(query[c]) \X (1..Len(articles[i].tags)) :
                        tagMatches(tokenAt(query[c], p[1]), articles[i].tags[p[2]])}
        IN  returnedScore(c, i) =
              10 * (otherPoints(query[c], articles[i]) + 15 * Cardinality(pairs))

\* "Old Mill" scores 45 on the document tagged "mill" and "old mill": "old"
\* matches one tag, "mill" both
C24_Witness ==
  \E c \in Calls :
    /\ kind[c] = "searchArticlesKeyword"
    /\ query[c] = QueryOldMill
    /\ Len(articles) >= 1
    /\ articles[1] = Doc9
    /\ otherPoints(query[c], articles[1]) = 0
    /\ result[c][1] = Result(Doc9, 450)

\* C25: after fusion the relevanceScore of every result searchArticlesHybrid
\* returns lies between 0 and 100.
C25_ZeroToHundred ==
  \A c \in Calls :
    (kind[c] = "searchArticlesHybrid" /\ pc[c] = "done") =>
      \A k \in 1..Len(result[c]) :
        /\ result[c][k].relevanceScore >= 0
        /\ result[c][k].relevanceScore <= Points(100)

\* ------------------------------------------------------ cosineSimilarity
\* every component of the vector is 0
isZero(vec) == \A i \in 1..Len(vec) : vec[i] = 0

\* how far x is from 1, in units of 2^(-Precision)
distanceFromOne(x) ==
  IF x.class # "finite" THEN Pow2(Precision)
  ELSE IF x.e = 1 - Precision
    THEN 2 * (IF x.m >= Pow2(Precision - 1)
                THEN x.m - Pow2(Precision - 1)
                ELSE Pow2(Precision - 1) - x.m)
  ELSE IF x.e = 0 - Precision /\ x.m > 0 THEN Pow2(Precision) - x.m
  ELSE Pow2(Precision)

\* C18: cosineSimilarity is symmetric.  What a call on two vectors of one
\* length returned is what the call with the arguments exchanged returns.
C18_Symmetric ==
  similarity.outcome = "returned" => similarity = cosineSimilarity(vecB, vecA)

\* two vectors of different norms, neither orthogonal nor parallel
C18_Witness ==
  /\ similarity.outcome = "returned"
  /\ vecA = <<1, 2>>
  /\ vecB = <<2, 0>>
  /\ similarity.value.m > 0
  /\ similarity.value # One

\* C19: for vectors of one length of which one is the zero vector,
\* cosineSimilarity returns 0: it does not throw and the value is a number.
C19_ZeroVector ==
  (/\ similarity.outcome # "none"
   /\ Len(vecA) = Len(vecB)
   /\ (isZero(vecA) \/ isZero(vecB))) =>
     similarity = [outcome |-> "returned", value |-> Zero]

\* the first vector is zero, the second is not
C19_Witness ==
  /\ similarity.outcome = "returned"
  /\ vecA = <<0, 0>>
  /\ vecB = <<1, 2>>

\* C20, as stated: for a nonzero vector a, cosineSimilarity(a, a) is 1.
C20_SelfIsOne ==
  (similarity.outcome = "returned" /\ vecA = vecB /\ ~isZero(vecA)) =>
    similarity.value = One

\* C20, amended: for a nonzero vector a, cosineSimilarity(a, a) is 1 within
\* floating tolerance: it differs from 1 by at most 4 * 2^(-Precision), the
\* rounding errors of the square root, the product and the quotient.
C20_SelfWithinTolerance ==
  (similarity.outcome = "returned" /\ vecA = vecB /\ ~isZero(vecA)) =>
    distanceFromOne(similarity.value) <= 4

\* cosineSimilarity([1, 1], [1, 1]) returned a number just off 1
C20_Witness ==
  /\ similarity.outcome = "returned"
  /\ vecA = <<1, 1>>
  /\ vecB = <<1, 1>>
  /\ similarity.value # One
  /\ distanceFromOne(similarity.value) > 0

\* x is at most 1 + u * 2^(-Precision) in absolute value
withinOne(x, u) ==
  /\ x.class = "finite"
  /\ LET abs == IF x.m < 0 THEN 0 - x.m ELSE x.m
     IN  \/ abs = 0
         \/ x.e < 1 - Precision
         \/ x.e = 1 - Precision /\ 2 * (abs - Pow2(Precision - 1)) <= u

semanticRanking(q) ==
  sortByScore(
    SelectSeq([i \in Indexes |->
                 Result(articles[i],
                        Points(similarityPercent(ModelOutput(q),
                                                 ModelOutput(articleText(articles[i])))))],
              LAMBDA r : r.relevanceScore > Points(10)))

\* the results a search of kind k for q can return: the semantic ranking,
\* or the lexical one when an embedding failed, fused for a hybrid search
rankingsFor(k, q) ==
  LET lexical == searchArticlesKeyword(q, articles)
  IN  IF k = "searchArticlesHybrid"
        THEN {combine(semanticRanking(q), lexical), combine(lexical, lexical)}
        ELSE {semanticRanking(q), lexical}

\* C27: no cancellation.  A search that was started returns, whatever
\* other search is started while it is in flight; it does not fail, and its
\* result is the ranking of the corpus for its own query.
C27_NoCancellation ==
  /\ \A c \in {first, second} : (pc[c] # "idle") ~> (pc[c] = "done")
  /\ [](\A c \in {first, second} :
          pc[c] = "done" =>
            /\ outcome[c] = "returned"
            /\ result[c] \in rankingsFor(kind[c], query[c]))

\* two hybrid searches for different queries awaited the same model load,
\* and each returned the semantic ranking for its own query
C27_Witness ==
  /\ kind[first] = "searchArticlesHybrid"
  /\ kind[second] = "searchArticlesHybrid"
  /\ query[first] = QueryOldMill
  /\ query[second] = QueryZoos
  /\ awaited[first][0] = 1
  /\ awaited[second][0] = 1
  /\ pc[first] = "done"
  /\ pc[second] = "done"
  /\ completedSemantic(first)
  /\ completedSemantic(second)
  /\ Len(articles) = 2
  /\ result[first] # result[second]

\* ------------------------------------------------- the state of the service
\* C28: isReady() and isModelLoading() are never both true; isReady() is
\* true only if some load has completed successfully; isLoading is true
\* exactly while a load is in flight.
C28_ReadyXorLoading ==
  /\ ~(isReady /\ isModelLoading)
  /\ isReady => \E l \in DOMAIN loads : loads[l] = "resolved"
  /\ isLoading <=> pendingLoads # {}

\* the service is ready after a failed load and a retry that succeeded,
\* with an embed() that has failed since
C28_Witness ==
  /\ isReady
  /\ ~isModelLoading
  /\ loads = <<"rejected", "resolved">>
  /\ \E c \in Calls : stage[c][0] = "failed" /\ awaited[c][0] = 1

\* C29: a search with an empty or whitespace-only query never calls
\* initialize() or embed(): the call is over in the step that makes it, and
\* that step leaves the fields of the service, the model state, every
\* article (with its cached vector) and the embed() counts unchanged.
C29_BlankSearchFrame ==
  [][\A c \in Calls :
       (/\ isCalled(c, SearchKinds \cup {"searchArticlesKeyword"})
        /\ IsBlank(query'[c])) =>
         /\ pc'[c] = "done"
         /\ \A s \in Slots : stage'[c][s] = "none" /\ awaited'[c][s] = 0
         /\ UNCHANGED <<embedder, isLoading, loadPromise, loads>>
         /\ ModelState' = ModelState
         /\ UNCHANGED <<articles, embedCalls, embedWrites>>]_vars

\* a whitespace-only search was made after another search had cached a
\* document vector
C29_Witness ==
  \E c \in Calls :
    /\ kind[c] \in SearchKinds
    /\ query[c] = QueryBlank
    /\ pc[c] = "done"
    /\ \E i \in Indexes : embedWrites[i] > 0 /\ "embedding" \in DOMAIN articles[i]

\* ---------------------------------------------------------- the Search page
\* C21: the "AI Model Ready" toast means the embedding model is installed:
\* whenever the toast has been shown, the load of the embedding model has
\* succeeded and the service is Ready.
C21_ToastMeansReady ==
  "AI Model Ready" \in toasts => ModelState = "Ready"

\* C22: Summarize is gated on the readiness of the summarization model.
\* summarizationReady is true only when the load of the summarization
\* model has resolved and the summarizer is set, and every step that starts
\* a handleSummarize is taken in such a state.
C22_SummarizeGated ==
  /\ [](summarizationReady => summarizer /\ initPromise = "resolved")
  /\ [][summaries' # summaries /\ summaries \subseteq summaries' =>
          /\ summarizationReady
          /\ summarizer
          /\ initPromise = "resolved"
          /\ UNCHANGED <<summarizer, isInitializing, initPromise>>]_vars

\* the user has clicked Summarize on a card and the summary is being
\* generated, with the summarization model loaded
C22_Witness ==
  /\ summaries # {}
  /\ currentlySummarizing \in summaries
  /\ "Generating Summary" \in toasts
  /\ summarizationReady
  /\ summarizer

\* C30: the search bar does not stay disabled for ever.  After mount
\* aiModelLoading becomes false, isSearching returns to false after every
\* search, and so the bar is enabled again and again.
C30_BarReenabled ==
  /\ (loadModels # "unmounted") ~> ~aiModelLoading
  /\ isSearching ~> ~isSearching
  /\ (loadModels # "unmounted") ~> ~disabled

\* the preload failed and aiModelLoading is false all the same; a search
\* made then, whose model load failed too, is over and isSearching is false
C30_Witness ==
  /\ loads = <<"rejected", "rejected">>
  /\ ~aiModelLoading
  /\ ~isSearching
  /\ searchCall = 0
  /\ "AI Search completed" \in toasts
  /\ \E c \in Calls :
       /\ kind[c] = "searchArticlesHybrid"
       /\ pc[c] = "done"
       /\ awaited[c][0] = 2

====
